---- MODULE Spec2Model ----
(***************************************************************************)
(* Model of syslogdiag/log.py: the attribute-tagged logger (logger,        *)
(* logtoscreen, logToMongod), the database log entry (logEntry) and the    *)
(* log reader (accessLogFromMongodb).                                      *)
(*                                                                         *)
(* Python dicts are functions from key strings to integers (label values,  *)
(* texts and ids are all small integers so that documents can be compared).*)
(* The Mongo collection is the sequence of its documents in natural        *)
(* (insertion) order; the sequencer meta-record lives in the same          *)
(* collection as the log records, as in the source.                        *)
(***************************************************************************)
EXTENDS Integers, Sequences, FiniteSets, TLC

\* ---------------------------------------------------------------- bounds
MaxIds == 1          \* highest log id the serialized store model issues
MaxCalls == 3        \* log() calls followed for unlocked callers and the console
MaxDay == 1          \* the clock runs over days 0..MaxDay
TicksPerDay == 2     \* clock resolution: ticks per day
MaxLoggers == 3      \* logger objects alive in one process
MaxDicts == 4        \* attribute dicts allocated in one process
MaxText == 1         \* caller texts are 1..MaxText

\* ------------------------------------------------------- program constants
LEVEL_ID == "_Level"
TIMESTAMP_ID == "_Timestamp"
TEXT_ID == "_Text"
LOG_RECORD_ID == "_Log_Record_id"
MONGO_ID_KEY == "_id"
META_KEY == "_meta_data"
NEXT_ID_KEY == "next_id"
META_LOG_ID == 0               \* the value "log_id" of the meta marker
COULDNT_EMAIL == 0             \* the text "Couldn't email user"
EMAIL_ON_LOG_LEVEL == {4}
None == -2                     \* Python None where an int is expected
DEFAULT_LOG_LEVEL == "Off"
NoLevel == "<absent>"          \* log_level keyword not passed by the caller

ReservedKeys == {LEVEL_ID, TIMESTAMP_ID, TEXT_ID, LOG_RECORD_ID}
MsgLevels == 0 .. 4
AllowedLevels == {"off", "terse", "on"}
Texts == 1 .. MaxText

\* ------------------------------------------------------------ dict helpers
EmptyDict == [k \in {} |-> 0]

Pop(d, key) == [k \in (DOMAIN d) \ {key} |-> d[k]]

SetItem(d, key, v) == [k \in (DOMAIN d) \cup {key} |-> IF k = key THEN v ELSE d[k]]

\* joined = copy(parent); joined[k] = new[k] for every key of new
JoinDicts(parent, new) ==
    [k \in (DOMAIN parent) \cup (DOMAIN new) |->
        IF k \in DOMAIN new THEN new[k] ELSE parent[k]]

\* ------------------------------------------------------------- date values
\* A datetime is [day, tick]; its long form packs both into one integer.
DateTime(d, t) == [day |-> d, tick |-> t]

datetime_to_long(dt) == dt.day * TicksPerDay + dt.tick

long_to_datetime(n) == [day |-> n \div TicksPerDay, tick |-> n % TicksPerDay]

\* now - timedelta(days = n)
MinusDays(dt, n) == [day |-> dt.day - n, tick |-> dt.tick]

\* ------------------------------------------------------------------ logEntry
MSG_LEVEL_DICT == [m \in MsgLevels |->
    CASE m = 0 -> "" [] m = 1 -> "" [] m = 2 -> "[Warning]"
      [] m = 3 -> "[Error]" [] m = 4 -> "*CRITICAL*"]

logEntry(text, log_timestamp, msglevel, input_attributes, log_id) ==
    LET use_attributes == input_attributes
        log_timestamp_aslong == datetime_to_long(log_timestamp)
        d1 == SetItem(use_attributes, LEVEL_ID, msglevel)
        d2 == SetItem(d1, TIMESTAMP_ID, log_timestamp_aslong)
        d3 == SetItem(d2, TEXT_ID, text)
        d4 == SetItem(d3, LOG_RECORD_ID, log_id)
    IN  [ _log_dict |-> d4,
          _use_attributes |-> use_attributes,
          _text |-> text,
          _msglevel |-> msglevel,
          _msglevel_text |-> MSG_LEVEL_DICT[msglevel],
          _timestamp_as_long |-> log_timestamp_aslong,
          _timestamp |-> log_timestamp,
          _log_id |-> log_id ]

log_dict(entry) == entry._log_dict

\* The keys log_entry_from_dict pops; a missing one is a KeyError.
PoppedKeys == {MONGO_ID_KEY, TIMESTAMP_ID, LEVEL_ID, TEXT_ID, LOG_RECORD_ID}

CanLoad(log_dict_input) == PoppedKeys \subseteq DOMAIN log_dict_input

\* variant: the level key is read but left among the attributes
log_entry_from_dict_level_not_popped(log_dict_input) ==
    LET d0 == Pop(log_dict_input, MONGO_ID_KEY)
        log_timestamp_aslong == d0[TIMESTAMP_ID]
        d1 == Pop(d0, TIMESTAMP_ID)
        msg_level == d1[LEVEL_ID]
        text == d1[TEXT_ID]
        d3 == Pop(d1, TEXT_ID)
        log_id == d3[LOG_RECORD_ID]
        input_attributes == Pop(d3, LOG_RECORD_ID)
    IN  logEntry(text, long_to_datetime(log_timestamp_aslong), msg_level,
                 input_attributes, log_id)

log_entry_from_dict(log_dict_input) ==
    LET d0 == Pop(log_dict_input, MONGO_ID_KEY)
        log_timestamp_aslong == d0[TIMESTAMP_ID]
        d1 == Pop(d0, TIMESTAMP_ID)
        msg_level == d1[LEVEL_ID]
        d2 == Pop(d1, LEVEL_ID)
        text == d2[TEXT_ID]
        d3 == Pop(d2, TEXT_ID)
        log_id == d3[LOG_RECORD_ID]
        input_attributes == Pop(d3, LOG_RECORD_ID)
    IN  logEntry(text, long_to_datetime(log_timestamp_aslong), msg_level,
                 input_attributes, log_id)

\* ------------------------------------------------- the Mongo collection
\* equality filter: every key of the filter is present with that value
MatchesEq(doc, filter) ==
    \A k \in DOMAIN filter : k \in DOMAIN doc /\ doc[k] = filter[k]

RECURSIVE FirstMatch(_, _, _)
FirstMatch(collection, filter, i) ==
    IF i > Len(collection) THEN 0
    ELSE IF MatchesEq(collection[i], filter) THEN i
    ELSE FirstMatch(collection, filter, i + 1)

\* collection.find_one(filter): index of the first match, 0 for None
find_one(collection, filter) == FirstMatch(collection, filter, 1)

\* collection.insert_one(doc): the store assigns the _id unless one is given
insert_one(collection, doc, new_oid) ==
    Append(collection,
           IF MONGO_ID_KEY \in DOMAIN doc THEN doc
           ELSE SetItem(doc, MONGO_ID_KEY, new_oid))

\* collection.replace_one(filter, replacement, upsert=True)
replace_one(collection, filter, replacement, new_oid) ==
    LET i == find_one(collection, filter)
    IN  IF i = 0 THEN insert_one(collection, replacement, new_oid)
        ELSE [collection EXCEPT
                ![i] = SetItem(replacement, MONGO_ID_KEY, collection[i][MONGO_ID_KEY])]

MetaFilter == [k \in {META_KEY} |-> META_LOG_ID]

MetaRecord(next_id) == [k \in {META_KEY, NEXT_ID_KEY} |->
                           IF k = META_KEY THEN META_LOG_ID ELSE next_id]

\* the log records of a collection (everything but the meta-record)
IsLogDoc(doc) == LOG_RECORD_ID \in DOMAIN doc
LogDocs(collection) == SelectSeq(collection, IsLogDoc)

\* ---------------------------------------------------------------- state
VARIABLES
    heap,      \* attribute dicts of the running process, by address
    loggers,   \* logger objects: [attributes (address), _log_level, _log_id]
    coll,      \* the "Logs" collection of the Mongo store
    oid,       \* next object id the store will assign
    now,       \* the clock, a datetime
    pc,        \* position of each concurrent caller inside log()
    last_id,   \* local last_id of each concurrent caller
    next_id,   \* local next_id of each concurrent caller
    out,       \* console events of the last screen emit, in order
    issued,    \* ids returned by get_next_log_id, in call order
    op,        \* the last operation, its inputs and its results
    rt         \* the round trip of one log entry through the store

vars == <<heap, loggers, coll, oid, now, pc, last_id, next_id, out, issued, op, rt>>

\* -------------------------------------------------------- logger (base)
Lower(s) == CASE s = "Off" -> "off" [] s = "ON" -> "on" [] s = "Terse" -> "terse"
              [] OTHER -> s

\* variant: any level name is taken
set_logging_level_unchecked(new_level) ==
    [raised |-> FALSE, level |-> Lower(new_level)]

\* set_logging_level: the new _log_level, or a raise
set_logging_level(new_level) ==
    LET l == Lower(new_level)
    IN  IF l \notin AllowedLevels THEN [raised |-> TRUE, level |-> l]
        ELSE [raised |-> FALSE, level |-> l]

\* variant: the new keys are set on the parent's dict itself, no copy
get_update_attributes_list_in_place(h, parent_attributes, new_attributes) ==
    [heap |-> [h EXCEPT ![parent_attributes] = JoinDicts(@, new_attributes)],
     ref |-> parent_attributes]

\* joined_attributes = copy(parent_attributes), then the new keys are set
\* on the copy; the result is a new dict at a new address.
get_update_attributes_list(h, parent_attributes, new_attributes) ==
    [heap |-> Append(h, JoinDicts(h[parent_attributes], new_attributes)),
     ref |-> Len(h) + 1]

Labels(i) == heap[loggers[i].attributes]

\* ------------------------------------------------ logToMongod: sequencer
\* variant: the last id is kept in the logger object, as logtoscreen does
get_last_used_log_id_in_process(collection, self) == self._log_id

get_last_used_log_id(collection, self) ==
    LET i == find_one(collection, MetaFilter)
    IN  IF i = 0 THEN None ELSE collection[i][NEXT_ID_KEY]

\* variant: the new id is not persisted
update_log_id_not_persisted(collection, new_next_id, new_oid) == collection

\* variant: the meta-record is only moved forward
update_log_id_if_newer(collection, new_next_id, new_oid) ==
    LET i == find_one(collection, MetaFilter)
    IN  IF i # 0 /\ collection[i][NEXT_ID_KEY] >= new_next_id THEN collection
        ELSE replace_one(collection, MetaFilter, MetaRecord(new_next_id), new_oid)

update_log_id(collection, new_next_id, new_oid) ==
    replace_one(collection, MetaFilter, MetaRecord(new_next_id), new_oid)

\* variant: an absent last id is taken as 0
next_id_after_absent_is_zero(last) == (IF last = None THEN 0 ELSE last) + 1

\* last_id is None -> -1; next_id = last_id + 1
next_id_after(last) == (IF last = None THEN -1 ELSE last) + 1

\* an insert consumes one object id
OidAfter(before, after, o) == o + (Len(after) - Len(before))

get_next_log_id(collection, o, self) ==
    LET last == get_last_used_log_id(collection, self)
        nxt == next_id_after(last)
        c2 == update_log_id(collection, nxt, o)
    IN  [next_id |-> nxt, coll |-> c2, oid |-> OidAfter(collection, c2, o)]

\* --------------------------------------------------- logToMongod: emit
\* st = [heap, coll, oid, calls, mails, sent, inserts, store_error, raised];
\* env = [now, mail_ok, fail_insert]: the clock, whether send_mail_msg
\* succeeds, and which insert_one of the emit (0 for none) meets a store
\* error.
RECURSIVE log(_, _, _, _, _, _)
RECURSIVE email_user(_, _, _, _)

StartSt(h, c, o) ==
    [heap |-> h, coll |-> c, oid |-> o, calls |-> <<>>, mails |-> 0,
     sent |-> <<>>, inserts |-> 0, store_error |-> FALSE, raised |-> FALSE]

\* the document of this entry is in the collection
Stored(collection, log_entry) ==
    \E i \in 1 .. Len(collection) :
        /\ LOG_RECORD_ID \in DOMAIN collection[i]
        /\ Pop(collection[i], MONGO_ID_KEY) = Pop(log_dict(log_entry), MONGO_ID_KEY)

\* variant: the insert honours the console threshold
log_handle_caller_thresholded(st, self, msglevel, text, input_attributes, log_id, env) ==
    LET log_entry == logEntry(text, env.now, msglevel, input_attributes, log_id)
        suppressed == \/ (msglevel = 0 /\ self._log_level # "on")
                      \/ (msglevel = 1 /\ self._log_level = "off")
        c2 == IF suppressed THEN st.coll
              ELSE insert_one(st.coll, log_dict(log_entry), st.oid)
        st2 == [st EXCEPT !.coll = c2, !.oid = OidAfter(st.coll, c2, st.oid),
                          !.inserts = @ + 1]
    IN  IF st.inserts + 1 = env.fail_insert
        THEN [st EXCEPT !.inserts = @ + 1, !.store_error = TRUE, !.raised = TRUE]
        ELSE IF msglevel \in EMAIL_ON_LOG_LEVEL
        THEN email_user(st2, self, log_entry, env)
        ELSE st2

\* variant: every message of a caller is mailed, whatever its level
log_handle_caller_mails_every_level(st, self, msglevel, text, input_attributes, log_id, env) ==
    LET log_entry == logEntry(text, env.now, msglevel, input_attributes, log_id)
        c2 == insert_one(st.coll, log_dict(log_entry), st.oid)
        st2 == [st EXCEPT !.coll = c2, !.oid = OidAfter(st.coll, c2, st.oid),
                          !.inserts = @ + 1]
    IN  IF st.inserts + 1 = env.fail_insert
        THEN [st EXCEPT !.inserts = @ + 1, !.store_error = TRUE, !.raised = TRUE]
        ELSE IF msglevel \in EMAIL_ON_LOG_LEVEL \/ text # COULDNT_EMAIL
        THEN email_user(st2, self, log_entry, env)
        ELSE st2

\* an insert_one that meets a store error raises out of log(); otherwise
\* the entry is inserted and a critical one is mailed
log_handle_caller(st, self, msglevel, text, input_attributes, log_id, env) ==
    LET log_entry == logEntry(text, env.now, msglevel, input_attributes, log_id)
        c2 == insert_one(st.coll, log_dict(log_entry), st.oid)
        st2 == [st EXCEPT !.coll = c2, !.oid = OidAfter(st.coll, c2, st.oid),
                          !.inserts = @ + 1]
    IN  IF st.inserts + 1 = env.fail_insert
        THEN [st EXCEPT !.inserts = @ + 1, !.store_error = TRUE, !.raised = TRUE]
        ELSE IF msglevel \in EMAIL_ON_LOG_LEVEL
        THEN email_user(st2, self, log_entry, env)
        ELSE st2

Mailed(st, log_entry) ==
    [st EXCEPT !.mails = @ + 1,
               !.sent = Append(@, [log_id |-> log_entry._log_id,
                                   stored |-> Stored(st.coll, log_entry)])]

\* variant: no try/except around send_mail_msg
email_user_unguarded(st, self, log_entry, env) ==
    IF env.mail_ok THEN Mailed(st, log_entry)
    ELSE [Mailed(st, log_entry) EXCEPT !.raised = TRUE]

\* send_mail_msg, and self.error("Couldn't email user") when it raises
email_user(st, self, log_entry, env) ==
    IF env.mail_ok THEN Mailed(st, log_entry)
    ELSE log(Mailed(st, log_entry), self, COULDNT_EMAIL, 3, EmptyDict, env)

\* variant: the new id is persisted only after the record went in
log_id_persisted_last(st, self, text, msglevel, kwargs, env) ==
    LET nxt == next_id_after(get_last_used_log_id(st.coll, self))
        r == get_update_attributes_list(st.heap, self.attributes, kwargs)
        st1 == [st EXCEPT !.heap = SubSeq(r.heap, 1, Len(st.heap)),
                          !.calls = Append(@, [text |-> text, msglevel |-> msglevel,
                                               kwargs |-> kwargs, log_id |-> nxt])]
        st2 == log_handle_caller(st1, self, msglevel, text, r.heap[r.ref], nxt, env)
        c3 == update_log_id(st2.coll, nxt, st2.oid)
    IN  IF st2.raised THEN st2
        ELSE [st2 EXCEPT !.coll = c3, !.oid = OidAfter(st2.coll, c3, st2.oid)]

log(st, self, text, msglevel, kwargs, env) ==
    LET n == get_next_log_id(st.coll, st.oid, self)
        r == get_update_attributes_list(st.heap, self.attributes, kwargs)
        use_attributes == r.heap[r.ref]
        st1 == [st EXCEPT !.heap = SubSeq(r.heap, 1, Len(st.heap)),
                          !.coll = n.coll, !.oid = n.oid,
                          !.calls = Append(@, [text |-> text, msglevel |-> msglevel,
                                               kwargs |-> kwargs, log_id |-> n.next_id])]
    IN  log_handle_caller(st1, self, msglevel, text, use_attributes, n.next_id, env)

\* ------------------------------------------------ accessLogFromMongodb
RECURSIVE InsertByLogId(_, _)
InsertByLogId(sorted, e) ==
    IF sorted = <<>> THEN <<e>>
    ELSE IF e._log_id < Head(sorted)._log_id THEN <<e>> \o sorted
    ELSE <<Head(sorted)>> \o InsertByLogId(Tail(sorted), e)

RECURSIVE SortByLogId(_)
\* results.sort(key=lambda x: x._log_id): a stable sort
SortByLogId(results) ==
    IF results = <<>> THEN <<>>
    ELSE InsertByLogId(SortByLogId(SubSeq(results, 1, Len(results) - 1)),
                       results[Len(results)])

\* collection.find(attribute_dict) once attribute_dict[TIMESTAMP_ID] has been
\* set to {"$gt": cutoff}
find_log_items(collection, attribute_dict, lookback_days, nowdt) ==
    LET cutoff == datetime_to_long(MinusDays(nowdt, lookback_days))
        eq == Pop(attribute_dict, TIMESTAMP_ID)
        Match(doc) == /\ MatchesEq(doc, eq)
                      /\ TIMESTAMP_ID \in DOMAIN doc
                      /\ doc[TIMESTAMP_ID] > cutoff
    IN  SelectSeq(collection, Match)

\* a KeyError in log_entry_from_dict leaves the list comprehension and the
\* whole call
get_log_items_raises(collection, attribute_dict, lookback_days, nowdt) ==
    LET results_list == find_log_items(collection, attribute_dict, lookback_days, nowdt)
    IN  \E i \in 1 .. Len(results_list) : ~CanLoad(results_list[i])

get_log_items_as_entries(collection, attribute_dict, lookback_days, nowdt) ==
    LET results_list == find_log_items(collection, attribute_dict, lookback_days, nowdt)
        results == [i \in 1 .. Len(results_list) |->
                        log_entry_from_dict(results_list[i])]
    IN  SortByLogId(results)

\* variant: only documents stamped at or after the cutoff are kept
delete_log_items_without_recent_stamp(collection, days, nowdt) ==
    LET cutoff == datetime_to_long(MinusDays(nowdt, days))
        Keep(doc) == TIMESTAMP_ID \in DOMAIN doc /\ doc[TIMESTAMP_ID] >= cutoff
    IN  SelectSeq(collection, Keep)

\* variant: the record stamped exactly at the cutoff is deleted too
delete_log_items_up_to_n_days(collection, days, nowdt) ==
    LET cutoff == datetime_to_long(MinusDays(nowdt, days))
        Keep(doc) == ~(TIMESTAMP_ID \in DOMAIN doc /\ doc[TIMESTAMP_ID] <= cutoff)
    IN  SelectSeq(collection, Keep)

delete_log_items_from_before_n_days(collection, days, nowdt) ==
    LET cutoff == datetime_to_long(MinusDays(nowdt, days))
        Keep(doc) == ~(TIMESTAMP_ID \in DOMAIN doc /\ doc[TIMESTAMP_ID] < cutoff)
    IN  SelectSeq(collection, Keep)

\* ------------------------------------------------------------ inputs
TypeValues == {1}
KwargSets == {EmptyDict, [k \in {"stage"} |-> 1]}
LevelInputs == {"Off", "terse", "on"}
DayInputs == 0 .. 1
FilterSets == {EmptyDict, [k \in {"stage"} |-> 1]}

NewLogger(ref, level) == [attributes |-> ref, _log_level |-> level, _log_id |-> None]

RtIdle == [pc |-> "idle"]

\* ---------------------------------------- the durable sink, calls serialized
InitCommon ==
    /\ coll = <<>>
    /\ oid = 1
    /\ now = DateTime(0, 0)
    /\ pc = <<>>
    /\ last_id = <<>>
    /\ next_id = <<>>
    /\ out = <<>>
    /\ issued = <<>>
    /\ op = [name |-> "init"]

\* a logToMongod("...", log_level=...) on an empty store
Init ==
    /\ InitCommon
    /\ rt = RtIdle
    /\ \E t \in TypeValues, l \in LevelInputs :
          /\ heap = <<[k \in {"type"} |-> t]>>
          /\ loggers = <<NewLogger(1, set_logging_level(l).level)>>

Self == loggers[1]
LastPersisted == get_last_used_log_id(coll, Self)
IdsLeft(k) == next_id_after(LastPersisted) + k - 1 <= MaxIds
RestartMeta == IF op.name = "restart" THEN op.meta ELSE None

CallIds(calls) == [i \in 1 .. Len(calls) |-> calls[i].log_id]

\* what the previous operation left for the next one to refer to
PruneMeta == IF op.name = "prune" THEN op.meta ELSE None
EmitTexts == {1}
\* the message levels the callers use: an ordinary message and a critical one
EmitLevels == {0, 4}
\* mail delivery and store failures only matter to a critical message's
\* escalation; an ordinary message can only lose its own insert
EmitCases(msglevel) ==
    IF msglevel \in EMAIL_ON_LOG_LEVEL
    THEN {<<TRUE, 0>>, <<FALSE, 0>>, <<TRUE, 1>>, <<FALSE, 2>>}
    ELSE {<<TRUE, 0>>, <<TRUE, 1>>}
RestartLevels == {"Off", "on"}

\* logger.msg / terse / warn / error / critical on the durable logger
Emit(msglevel, text, kwargs, mail_ok, fail_insert) ==
    /\ IdsLeft(1)
    /\ LET st == log(StartSt(heap, coll, oid), Self, text, msglevel, kwargs,
                     [now |-> now, mail_ok |-> mail_ok, fail_insert |-> fail_insert])
       IN  /\ \A i \in 1 .. Len(st.calls) : st.calls[i].log_id <= MaxIds
           /\ heap' = st.heap
           /\ coll' = st.coll
           /\ oid' = st.oid
           /\ issued' = issued \o CallIds(st.calls)
           /\ op' = [name |-> "emit", msglevel |-> msglevel, text |-> text,
                     kwargs |-> kwargs, mail_failed |-> (st.mails > 0 /\ ~mail_ok),
                     level |-> Self._log_level, labels |-> Labels(1),
                     collBefore |-> coll, meta |-> LastPersisted,
                     restartMeta |-> RestartMeta, afterRestart |-> op.name = "restart",
                     pruneMeta |-> PruneMeta, afterPrune |-> op.name = "prune",
                     calls |-> st.calls, mails |-> st.mails, sent |-> st.sent,
                     store_error |-> st.store_error, raised |-> st.raised]
    /\ UNCHANGED <<loggers, now, pc, last_id, next_id, out, rt>>

\* a bare get_next_log_id() call
NextId ==
    /\ IdsLeft(1)
    /\ LET n == get_next_log_id(coll, oid, Self)
       IN  /\ coll' = n.coll
           /\ oid' = n.oid
           /\ issued' = Append(issued, n.next_id)
           /\ op' = [name |-> "nextId", ret |-> n.next_id, meta |-> LastPersisted,
                     restartMeta |-> RestartMeta, afterRestart |-> op.name = "restart",
                     pruneMeta |-> PruneMeta, afterPrune |-> op.name = "prune"]
    /\ UNCHANGED <<heap, loggers, now, pc, last_id, next_id, out, rt>>

\* the process ends; a new one builds a new logToMongod on the same store
Restart(t, l) ==
    /\ heap' = <<[k \in {"type"} |-> t]>>
    /\ loggers' = <<NewLogger(1, set_logging_level(l).level)>>
    /\ op' = [name |-> "restart", meta |-> LastPersisted]
    /\ UNCHANGED <<coll, oid, now, pc, last_id, next_id, out, issued, rt>>

Query(attribute_dict, lookback_days) ==
    /\ LET raised == get_log_items_raises(coll, attribute_dict, lookback_days, now)
       IN  op' = [name |-> "query", filter |-> attribute_dict, days |-> lookback_days,
                  raised |-> raised,
                  results |-> IF raised THEN <<>>
                              ELSE get_log_items_as_entries(coll, attribute_dict,
                                                            lookback_days, now)]
    /\ UNCHANGED <<heap, loggers, coll, oid, now, pc, last_id, next_id, out, issued, rt>>

Prune(days) ==
    /\ coll' = delete_log_items_from_before_n_days(coll, days, now)
    /\ op' = [name |-> "prune", days |-> days, collBefore |-> coll,
              meta |-> LastPersisted, nowBefore |-> now]
    /\ UNCHANGED <<heap, loggers, oid, now, pc, last_id, next_id, out, issued, rt>>

\* the clock moves on by a day
Tick ==
    /\ now.day < MaxDay
    /\ now' = DateTime(now.day + 1, now.tick)
    /\ op' = [name |-> "tick"]
    /\ UNCHANGED <<heap, loggers, coll, oid, pc, last_id, next_id, out, issued, rt>>

Next ==
    \/ \E m \in EmitLevels, t \in EmitTexts, kw \in KwargSets :
          \E c \in EmitCases(m) : Emit(m, t, kw, c[1], c[2])
    \/ NextId
    \/ \E t \in TypeValues, l \in RestartLevels : Restart(t, l)
    \/ \E f \in FilterSets, d \in DayInputs : Query(f, d)
    \/ \E d \in DayInputs : Prune(d)
    \/ Tick

Spec == Init /\ [][Next]_vars

\* ------------------------------------------------ properties of Spec
StoredIds == [i \in 1 .. Len(LogDocs(coll)) |-> LogDocs(coll)[i][LOG_RECORD_ID]]

\* C1: against a fresh store, the k-th serial call of get_next_log_id
\* (k = 0, 1, 2, ...) returns k: the first id is 0, each later one is the
\* previous id plus 1.
C1_IdsCountFromZero == \A k \in 1 .. Len(issued) : issued[k] = k - 1

C1_Witness == Len(issued) >= 2 /\ op.name = "nextId" /\ op.ret = 1

\* C2: the first id issued after a restart is the value persisted in the
\* meta-record before the restart plus 1, and 0 is never issued again once
\* an id has been issued.
C2_RestartContinues ==
    /\ (op.name \in {"nextId", "emit"} /\ op.afterRestart /\ op.restartMeta # None)
          => /\ op.name = "nextId" => op.ret = op.restartMeta + 1
             /\ op.name = "emit" => op.calls[1].log_id = op.restartMeta + 1
    /\ \A k \in 2 .. Len(issued) : issued[k] # 0

C2_Witness ==
    /\ op.name = "nextId" /\ op.afterRestart /\ op.restartMeta = 0 /\ op.ret = 1

\* C4: with emits serialized, the ids of the stored log records are
\* non-negative, pairwise distinct and strictly increasing in insertion
\* order, whatever emits, escalation failures, restarts, queries and prunes
\* came before.
C4_StoredIdsIncrease ==
    /\ \A i \in 1 .. Len(StoredIds) : StoredIds[i] >= 0
    /\ \A i, j \in 1 .. Len(StoredIds) : i < j => StoredIds[i] < StoredIds[j]

C4_Witness ==
    /\ op.name = "emit" /\ op.msglevel = 4 /\ op.mail_failed
    /\ Len(op.calls) = 2
    /\ Len(StoredIds) = 2 /\ StoredIds[1] = 0 /\ StoredIds[2] = 1

\* the log records an emit added, and the record a log() call must leave
AddedDocs == SubSeq(LogDocs(coll), Len(LogDocs(op.collBefore)) + 1, Len(LogDocs(coll)))

Carries(doc, text, msglevel, labels, log_id) ==
    /\ DOMAIN doc = (DOMAIN labels) \cup ReservedKeys \cup {MONGO_ID_KEY}
    /\ \A k \in (DOMAIN labels) \ ReservedKeys : doc[k] = labels[k]
    /\ doc[TEXT_ID] = text
    /\ doc[LEVEL_ID] = msglevel
    /\ doc[LOG_RECORD_ID] = log_id

\* C10: every log() call through the durable sink, at any severity and any
\* threshold, adds exactly one record, which carries the call's text, its
\* severity, the merged labels and the id get_next_log_id just returned;
\* the records already stored stay in place.
C10_EveryEmitInserted ==
    (op.name = "emit" /\ ~op.raised) =>
        /\ SubSeq(LogDocs(coll), 1, Len(LogDocs(op.collBefore))) = LogDocs(op.collBefore)
        /\ Len(AddedDocs) = Len(op.calls)
        /\ Carries(AddedDocs[1], op.text, op.msglevel,
                   JoinDicts(op.labels, op.kwargs), op.calls[1].log_id)
        /\ Cardinality({i \in 1 .. Len(AddedDocs) :
               Carries(AddedDocs[i], op.text, op.msglevel,
                       JoinDicts(op.labels, op.kwargs), op.calls[1].log_id)}) = 1
        /\ \A i \in 1 .. Len(AddedDocs) :
               Carries(AddedDocs[i], op.calls[i].text, op.calls[i].msglevel,
                       JoinDicts(op.labels, op.calls[i].kwargs), op.calls[i].log_id)
        /\ Len(op.calls) = IF op.mail_failed THEN 2 ELSE 1

C10_Witness ==
    /\ op.name = "emit" /\ ~op.raised /\ op.level = "off" /\ op.msglevel = 0
    /\ op.kwargs # EmptyDict
    /\ Len(AddedDocs) = 1 /\ AddedDocs[1][LEVEL_ID] = 0

\* C11: on the durable sink a critical emit whose record went in calls the
\* notification transport exactly once, after the insert and whatever the
\* threshold; an emit at severity 0..3 never calls it.
C11_EscalatedOncePerCritical ==
    op.name = "emit" =>
        /\ (op.msglevel = 4 /\ ~op.raised) =>
              /\ Len(op.sent) = 1
              /\ op.sent[1].log_id = op.calls[1].log_id
              /\ op.sent[1].stored
        /\ op.msglevel # 4 => Len(op.sent) = 0
        /\ Len(op.sent) > 0 => Len(AddedDocs) > 0 /\ AddedDocs[1][LEVEL_ID] = 4

C11_Witness ==
    /\ op.name = "emit" /\ op.msglevel = 4 /\ op.level = "off"
    /\ ~op.raised /\ ~op.mail_failed
    /\ Len(op.sent) = 1 /\ op.sent[1].stored
    /\ Len(AddedDocs) = 1

\* C12: when the transport fails during a critical emit, the failure does
\* not reach the caller, exactly one further record is inserted, at
\* severity 3, it is not escalated, and the critical record is in the store.
C12_EscalationFailureLogged ==
    (op.name = "emit" /\ op.mail_failed /\ ~op.store_error) =>
        /\ ~op.raised
        /\ Len(AddedDocs) = 2
        /\ AddedDocs[1][LEVEL_ID] = 4 /\ AddedDocs[1][TEXT_ID] = op.text
        /\ AddedDocs[1][LOG_RECORD_ID] = op.calls[1].log_id
        /\ AddedDocs[2][LEVEL_ID] = 3 /\ AddedDocs[2][TEXT_ID] = COULDNT_EMAIL
        /\ Len(op.sent) = 1 /\ op.sent[1].log_id = op.calls[1].log_id

C12_Witness ==
    /\ op.name = "emit" /\ op.mail_failed /\ ~op.raised
    /\ Len(AddedDocs) = 2 /\ AddedDocs[2][LEVEL_ID] = 3
    /\ Len(op.sent) = 1

\* ------------------------------- the durable sink, two callers, no lock
\* Each caller runs log(): get_last_used_log_id (a find_one), then
\* update_log_id (an upsert), then log_handle_caller (an insert).  The
\* store serializes the single operations, nothing more.
Callers == {1, 2}

InitConc ==
    /\ coll = <<>>
    /\ oid = 1
    /\ now = DateTime(0, 0)
    /\ pc = [c \in Callers |-> "idle"]
    /\ last_id = [c \in Callers |-> None]
    /\ next_id = [c \in Callers |-> None]
    /\ out = <<>>
    /\ issued = <<>>
    /\ op = [name |-> "init"]
    /\ rt = RtIdle
    /\ heap = <<[k \in {"type"} |-> 1]>>
    /\ loggers = <<NewLogger(1, "off")>>

InFlight == {c \in Callers : pc[c] = "read"}

\* last_id = self.get_last_used_log_id()
CRead(c) ==
    /\ pc[c] = "idle"
    /\ Len(issued) + Cardinality(InFlight) < MaxCalls
    /\ last_id' = [last_id EXCEPT ![c] = get_last_used_log_id(coll, Self)]
    /\ pc' = [pc EXCEPT ![c] = "read"]
    /\ op' = [name |-> "cread", caller |-> c]
    /\ UNCHANGED <<heap, loggers, coll, oid, now, next_id, out, issued, rt>>

\* next_id = last_id + 1; self.update_log_id(next_id); return next_id
CWrite(c) ==
    /\ pc[c] = "read"
    /\ LET nxt == next_id_after(last_id[c])
           c2 == update_log_id(coll, nxt, oid)
       IN  /\ next_id' = [next_id EXCEPT ![c] = nxt]
           /\ coll' = c2
           /\ oid' = OidAfter(coll, c2, oid)
           /\ issued' = Append(issued, nxt)
    /\ pc' = [pc EXCEPT ![c] = "written"]
    /\ op' = [name |-> "cwrite", caller |-> c, meta |-> LastPersisted]
    /\ UNCHANGED <<heap, loggers, now, last_id, out, rt>>

\* self.log_handle_caller(msglevel, text, use_attributes, log_id)
CInsert(c, msglevel, text) ==
    /\ pc[c] = "written"
    /\ LET st == log_handle_caller(StartSt(heap, coll, oid), Self, msglevel, text,
                                   Labels(1), next_id[c],
                                   [now |-> now, mail_ok |-> TRUE, fail_insert |-> 0])
       IN  /\ coll' = st.coll
           /\ oid' = st.oid
    /\ pc' = [pc EXCEPT ![c] = "idle"]
    /\ op' = [name |-> "cinsert", caller |-> c, log_id |-> next_id[c]]
    /\ UNCHANGED <<heap, loggers, now, last_id, next_id, out, issued, rt>>

NextConc ==
    \/ \E c \in Callers : CRead(c)
    \/ \E c \in Callers : CWrite(c)
    \/ \E c \in Callers, m \in MsgLevels, t \in Texts : CInsert(c, m, t)

SpecConc == InitConc /\ [][NextConc]_vars

\* C3: get_next_log_id is a read followed by a blind write: the id a caller
\* returns is the value it read earlier plus 1, and its upsert sets the
\* meta-record to that id whatever another caller wrote in between; so two
\* unlocked callers can return the same id and store two records with it.
C3_ReadThenBlindWrite ==
    /\ \A c \in Callers :
          pc[c] = "written" => next_id[c] = next_id_after(last_id[c])
    /\ op.name = "cwrite" => LastPersisted = next_id[op.caller]

C3_Witness ==
    /\ \E i, j \in 1 .. Len(StoredIds) : i # j /\ StoredIds[i] = StoredIds[j]
    /\ Len(issued) = 2 /\ issued[1] = issued[2]
    /\ op.name = "cinsert"

\* ------------------------------------------------------------ logtoscreen
PrintEv(text) == [kind |-> "print", text |-> text]
RaiseEv(text) == [kind |-> "raise", text |-> text]

\* variant: terse messages are printed only when the level is "on"
logtoscreen_log_handle_caller_terse_needs_on(self, msglevel, text) ==
    LET log_level == self._log_level
    IN  (IF msglevel \in {0, 1}
         THEN (IF log_level = "on" THEN <<PrintEv(text)>> ELSE <<>>)
         ELSE <<PrintEv(text)>>)
        \o (IF msglevel = 2 THEN <<PrintEv(text)>> ELSE <<>>)
        \o (IF msglevel = 3 THEN <<PrintEv(text)>> ELSE <<>>)
        \o (IF msglevel = 4 THEN <<RaiseEv(text)>> ELSE <<>>)

\* variant: the critical check comes first, so nothing is printed before
\* the raise
logtoscreen_log_handle_caller_raise_first(self, msglevel, text) ==
    LET log_level == self._log_level
    IN  IF msglevel = 4 THEN <<RaiseEv(text)>>
        ELSE (IF msglevel = 0
              THEN (IF log_level = "on" THEN <<PrintEv(text)>> ELSE <<>>)
              ELSE IF msglevel = 1
              THEN (IF log_level \in {"on", "terse"} THEN <<PrintEv(text)>> ELSE <<>>)
              ELSE <<PrintEv(text)>>)
             \o (IF msglevel = 2 THEN <<PrintEv(text)>> ELSE <<>>)
             \o (IF msglevel = 3 THEN <<PrintEv(text)>> ELSE <<>>)

\* the console events of one call, in order; a raise ends the call
logtoscreen_log_handle_caller(self, msglevel, text) ==
    LET log_level == self._log_level
    IN  (IF msglevel = 0
         THEN (IF log_level = "on" THEN <<PrintEv(text)>> ELSE <<>>)
         ELSE IF msglevel = 1
         THEN (IF log_level \in {"on", "terse"} THEN <<PrintEv(text)>> ELSE <<>>)
         ELSE <<PrintEv(text)>>)
        \o (IF msglevel = 2 THEN <<PrintEv(text)>> ELSE <<>>)
        \o (IF msglevel = 3 THEN <<PrintEv(text)>> ELSE <<>>)
        \o (IF msglevel = 4 THEN <<RaiseEv(text)>> ELSE <<>>)

logtoscreen_get_last_used_log_id(self) == self._log_id

logtoscreen_update_log_id(self, log_id) == [self EXCEPT !._log_id = log_id]

InitScreen == Init

\* logger.log on a logtoscreen: next id, merged attributes, console output
ScreenLog(msglevel, text, kwargs) ==
    /\ next_id_after(logtoscreen_get_last_used_log_id(Self)) < MaxCalls
    /\ LET log_id == next_id_after(logtoscreen_get_last_used_log_id(Self))
           r == get_update_attributes_list(heap, Self.attributes, kwargs)
       IN  /\ loggers' = [loggers EXCEPT ![1] = logtoscreen_update_log_id(Self, log_id)]
           /\ heap' = SubSeq(r.heap, 1, Len(heap))
           /\ out' = logtoscreen_log_handle_caller(Self, msglevel, text)
           /\ op' = [name |-> "screenlog", msglevel |-> msglevel, text |-> text,
                     kwargs |-> kwargs, level |-> Self._log_level, log_id |-> log_id]
    /\ UNCHANGED <<coll, oid, now, pc, last_id, next_id, issued, rt>>

\* logger.set_logging_level on the console logger
ScreenSetLevel(new_level) ==
    /\ LET r == set_logging_level(new_level)
       IN  /\ loggers' = IF r.raised THEN loggers
                         ELSE [loggers EXCEPT ![1]._log_level = r.level]
           /\ op' = [name |-> "setlevel", new_level |-> new_level, raised |-> r.raised]
    /\ UNCHANGED <<heap, coll, oid, now, pc, last_id, next_id, out, issued, rt>>

NextScreen ==
    \/ \E m \in MsgLevels, t \in Texts, kw \in KwargSets : ScreenLog(m, t, kw)
    \/ \E l \in LevelInputs : ScreenSetLevel(l)

SpecScreen == InitScreen /\ [][NextScreen]_vars

Printed(text) == \E i \in 1 .. Len(out) : out[i] = PrintEv(text)
Faulted == \E i \in 1 .. Len(out) : out[i].kind = "raise"

\* the decision table: (severity, threshold) pairs that reach the console
ConsoleTable ==
    {<<0, "on">>, <<1, "terse">>, <<1, "on">>} \cup ({2, 3, 4} \X {"off", "terse", "on"})

\* C5: the console sink prints the message iff the decision table says yes:
\* severity 0 only at "on", severity 1 at "terse" or "on", severities 2, 3
\* and 4 at every threshold.
C5_ConsoleDecisionTable ==
    op.name = "screenlog" =>
        (Printed(op.text) <=> <<op.msglevel, op.level>> \in ConsoleTable)

C5_Witness ==
    /\ op.name = "screenlog" /\ op.msglevel = 1 /\ op.level = "terse"
    /\ Printed(op.text)

\* C6: on the console sink an emit signals a fault iff its severity is 4,
\* at every threshold, and the fault comes last, after the message was
\* printed.
C6_CriticalRaisesAfterPrint ==
    op.name = "screenlog" =>
        /\ Faulted <=> op.msglevel = 4
        /\ Faulted =>
              /\ out[Len(out)] = RaiseEv(op.text)
              /\ \A i \in 1 .. Len(out) - 1 : out[i].kind = "print"
              /\ \E i \in 1 .. Len(out) - 1 : out[i] = PrintEv(op.text)

C6_Witness ==
    /\ op.name = "screenlog" /\ op.msglevel = 4 /\ op.level = "off"
    /\ out = <<PrintEv(op.text), RaiseEv(op.text)>>

\* ------------------------------------------- contexts: derive and label
CtxKwargs == {EmptyDict, [k \in {"stage"} |-> 2], [k \in {"type"} |-> 2]}
LevelArgs == LevelInputs \cup {NoLevel}

LabelsNow == [i \in 1 .. Len(loggers) |-> Labels(i)]
LevelsNow == [i \in 1 .. Len(loggers) |-> loggers[i]._log_level]

\* logger("name", log_level=..., **kwargs): a context made from a bare name
InitCtx ==
    /\ InitCommon
    /\ rt = RtIdle
    /\ \E t \in TypeValues, l \in LevelInputs, kw \in {EmptyDict, [k \in {"stage"} |-> 1]} :
          LET h0 == <<[k \in {"type"} |-> t]>>
              r == get_update_attributes_list(h0, 1, kw)
          IN  /\ heap = <<r.heap[r.ref]>>
              /\ loggers = <<NewLogger(1, set_logging_level(l).level)>>

\* logger(base, **kwargs) or logger(base, log_level=..., **kwargs).
\* "type" names the first parameter, so a "type" keyword next to the
\* positional base is a TypeError; log_level defaults to "Off".
Construct(base, log_level, kwargs) ==
    /\ base \in 1 .. Len(loggers)
    /\ Len(loggers) < MaxLoggers
    /\ Len(heap) < MaxDicts
    /\ LET bad_call == "type" \in DOMAIN kwargs
           r == get_update_attributes_list(heap, loggers[base].attributes, kwargs)
           lv == set_logging_level(IF log_level = NoLevel THEN DEFAULT_LOG_LEVEL
                                   ELSE log_level)
           raised == bad_call \/ lv.raised
       IN  /\ heap' = IF raised THEN heap ELSE r.heap
           /\ loggers' = IF raised THEN loggers
                         ELSE Append(loggers, NewLogger(r.ref, lv.level))
           /\ op' = [name |-> "construct", base |-> base, kwargs |-> kwargs,
                     log_level |-> log_level, raised |-> raised,
                     before |-> LabelsNow, levelsBefore |-> LevelsNow]
    /\ UNCHANGED <<coll, oid, now, pc, last_id, next_id, out, issued, rt>>

\* base.setup(**kwargs)
Setup(base, kwargs) ==
    /\ base \in 1 .. Len(loggers)
    /\ Len(loggers) < MaxLoggers
    /\ Len(heap) < MaxDicts
    /\ LET new_log == loggers[base]
           r == get_update_attributes_list(heap, new_log.attributes, kwargs)
       IN  /\ heap' = r.heap
           /\ loggers' = Append(loggers, [new_log EXCEPT !.attributes = r.ref,
                                              !._log_level = loggers[base]._log_level])
           /\ op' = [name |-> "setup", base |-> base, kwargs |-> kwargs,
                     log_level |-> NoLevel, raised |-> FALSE,
                     before |-> LabelsNow, levelsBefore |-> LevelsNow]
    /\ UNCHANGED <<coll, oid, now, pc, last_id, next_id, out, issued, rt>>

\* target.label(**kwargs): the one in-place change of a context's labels
Label(target, kwargs) ==
    /\ target \in 1 .. Len(loggers)
    /\ Len(heap) < MaxDicts
    /\ LET r == get_update_attributes_list(heap, loggers[target].attributes, kwargs)
       IN  /\ heap' = r.heap
           /\ loggers' = [loggers EXCEPT ![target].attributes = r.ref]
           /\ op' = [name |-> "label", target |-> target, kwargs |-> kwargs,
                     raised |-> FALSE, before |-> LabelsNow, levelsBefore |-> LevelsNow]
    /\ UNCHANGED <<coll, oid, now, pc, last_id, next_id, out, issued, rt>>

NextCtx ==
    \/ \E b \in 1 .. MaxLoggers, l \in LevelArgs, kw \in CtxKwargs : Construct(b, l, kw)
    \/ \E b \in 1 .. MaxLoggers, kw \in CtxKwargs : Setup(b, kw)
    \/ \E t \in 1 .. MaxLoggers, kw \in CtxKwargs : Label(t, kw)

SpecCtx == InitCtx /\ [][NextCtx]_vars

\* C.labels with O's keys overridden
Overridden(C, O) ==
    [k \in (DOMAIN C) \cup (DOMAIN O) |-> IF k \in DOMAIN O THEN O[k] ELSE C[k]]

Derived == op.name \in {"construct", "setup"} /\ ~op.raised

C8_ThresholdInherited ==
    (Derived /\ op.log_level = NoLevel) =>
        loggers[Len(loggers)]._log_level = op.levelsBefore[op.base]

\* --------------------------- one log entry through the store and back
RtTimes == {DateTime(d, t) : d \in 0 .. MaxDay, t \in 0 .. TicksPerDay - 1}
RtAttributes == {EmptyDict, [k \in {"type"} |-> 1],
                 [k \in {"type", "stage"} |-> IF k = "type" THEN 1 ELSE 2],
                 [k \in {"type", TEXT_ID} |-> 2]}

InitRec ==
    /\ InitCommon
    /\ heap = <<[k \in {"type"} |-> 1]>>
    /\ loggers = <<NewLogger(1, "off")>>
    /\ \E text \in Texts, ts \in RtTimes, m \in MsgLevels, a \in RtAttributes,
          id \in 0 .. MaxIds :
          rt = [pc |-> "input", text |-> text, log_timestamp |-> ts, msglevel |-> m,
                input_attributes |-> a, log_id |-> id]

RtFields == {"text", "log_timestamp", "msglevel", "input_attributes", "log_id"}
RtWith(r, step) == [f \in DOMAIN r \cup DOMAIN step |-> IF f \in DOMAIN step THEN step[f] ELSE r[f]]

\* log_entry = logEntry(text, log_timestamp, msglevel, input_attributes, log_id)
RtConstruct ==
    /\ rt.pc = "input"
    /\ rt' = RtWith(rt, [pc |-> "built",
                         entry |-> logEntry(rt.text, rt.log_timestamp, rt.msglevel,
                                            rt.input_attributes, rt.log_id)])
    /\ op' = [name |-> "construct_entry"]
    /\ UNCHANGED <<heap, loggers, coll, oid, now, pc, last_id, next_id, out, issued>>

\* collection.insert_one(log_entry.log_dict())
RtInsert ==
    /\ rt.pc = "built"
    /\ coll' = insert_one(coll, log_dict(rt.entry), oid)
    /\ oid' = OidAfter(coll, coll', oid)
    /\ rt' = [rt EXCEPT !.pc = "stored"]
    /\ op' = [name |-> "insert_entry"]
    /\ UNCHANGED <<heap, loggers, now, pc, last_id, next_id, out, issued>>

\* logEntry.log_entry_from_dict(single_log_dict) on the stored document
RtLoad ==
    /\ rt.pc = "stored"
    /\ LET single_log_dict == coll[Len(coll)]
       IN  rt' = IF CanLoad(single_log_dict)
                 THEN RtWith(rt, [pc |-> "loaded",
                                  back |-> log_entry_from_dict(single_log_dict)])
                 ELSE [rt EXCEPT !.pc = "keyerror"]
    /\ op' = [name |-> "load_entry"]
    /\ UNCHANGED <<heap, loggers, coll, oid, now, pc, last_id, next_id, out, issued>>

NextRec == RtConstruct \/ RtInsert \/ RtLoad

SpecRec == InitRec /\ [][NextRec]_vars

\* a valid record's attributes use none of the reserved keys
RtValid == (DOMAIN rt.input_attributes) \cap (ReservedKeys \cup {MONGO_ID_KEY}) = {}

WithinLookback(filter, days) ==
    LET cutoff == datetime_to_long(MinusDays(now, days))
        InRange(doc) == /\ IsLogDoc(doc)
                        /\ MatchesEq(doc, Pop(filter, TIMESTAMP_ID))
                        /\ doc[TIMESTAMP_ID] >= cutoff
    IN  SelectSeq(coll, InRange)

\* C14: a query returns exactly the stored log records that carry the
\* filter's labels and whose timestamp is >= now - lookback_days (a record
\* stamped exactly at the cutoff included), sorted ascending by id.
C14_QueryWithinLookback ==
    (op.name = "query" /\ ~op.raised) =>
        LET want == WithinLookback(op.filter, op.days)
        IN  /\ Len(op.results) = Len(want)
            /\ \A i \in 1 .. Len(want) :
                  \E j \in 1 .. Len(op.results) :
                      op.results[j] = log_entry_from_dict(want[i])
            /\ \A j, k \in 1 .. Len(op.results) :
                  j < k => op.results[j]._log_id <= op.results[k]._log_id

PruneCutoff == datetime_to_long(MinusDays(op.nowBefore, op.days))

\* C15: a prune of n days removes every log record stamped strictly before
\* now - n, removes no record stamped at or after it, and leaves the
\* survivors as they were, in their order.
C15_PruneStrictlyOlder ==
    op.name = "prune" =>
        LET before == LogDocs(op.collBefore)
            Recent(doc) == doc[TIMESTAMP_ID] >= PruneCutoff
        IN  /\ LogDocs(coll) = SelectSeq(before, Recent)
            /\ \A i \in 1 .. Len(before) :
                  (before[i][TIMESTAMP_ID] < PruneCutoff) <=>
                      ~\E j \in 1 .. Len(coll) : coll[j] = before[i]

C15_Witness ==
    /\ op.name = "prune"
    /\ Len(LogDocs(op.collBefore)) = 2 /\ Len(LogDocs(coll)) = 1
    /\ LogDocs(op.collBefore)[1][TIMESTAMP_ID] < PruneCutoff
    /\ LogDocs(coll)[1][TIMESTAMP_ID] = PruneCutoff

\* C17: a record built from labels that include a reserved key name holds
\* its own severity, timestamp, text and id under the reserved keys of its
\* storage mapping, and its attributes contain none of the reserved keys.
C17_ReservedLabelOverwritten ==
    (rt.pc \in {"built", "stored", "loaded"}
        /\ (DOMAIN rt.input_attributes) \cap ReservedKeys # {}) =>
        /\ log_dict(rt.entry)[LEVEL_ID] = rt.msglevel
        /\ log_dict(rt.entry)[TIMESTAMP_ID] = datetime_to_long(rt.log_timestamp)
        /\ log_dict(rt.entry)[TEXT_ID] = rt.text
        /\ log_dict(rt.entry)[LOG_RECORD_ID] = rt.log_id
        /\ (DOMAIN rt.entry._use_attributes) \cap ReservedKeys = {}

\* C18: the meta-record takes the new id before the record is inserted:
\* every stored record's id is <= the persisted next_id, also when the
\* insert met a store error or the process ended before it, and the id
\* of a failed insert is never issued again.
C18_IdPersistedBeforeInsert ==
    /\ \A i \in 1 .. Len(StoredIds) : StoredIds[i] <= LastPersisted
    /\ \A i \in 1 .. Len(issued) : issued[i] <= LastPersisted
    /\ \A i, j \in 1 .. Len(issued) : i # j => issued[i] # issued[j]
    /\ (op.name = "emit" /\ op.store_error) =>
          LET failed == op.calls[Len(op.calls)].log_id
          IN  /\ LastPersisted >= failed
              /\ \A i \in 1 .. Len(AddedDocs) : AddedDocs[i][LOG_RECORD_ID] # failed

C18_Witness ==
    /\ op.name = "emit" /\ op.store_error /\ Len(op.calls) = 1
    /\ op.calls[1].log_id = 1 /\ LastPersisted = 1
    /\ StoredIds = <<0>> /\ Len(AddedDocs) = 0

\* the meta-record as it is in a collection, or None
MetaDoc(collection) == find_one(collection, MetaFilter)

\* the id an emit or a bare get_next_log_id() call gave out first
FirstIssued == IF op.name = "nextId" THEN op.ret ELSE op.calls[1].log_id

\* C19: the meta-record has no timestamp, so no prune deletes it and no
\* query returns it; the first id issued after a prune, also one that
\* removed every log record, is the persisted value plus 1 and was never
\* issued before.
C19_MetaRecordOutOfReach ==
    /\ op.name = "prune" =>
          /\ MetaDoc(coll) = MetaDoc(op.collBefore)
          /\ LastPersisted = op.meta
    /\ (op.name = "query" /\ ~op.raised) =>
          \A j \in 1 .. Len(op.results) :
              \E i \in 1 .. Len(coll) :
                  /\ IsLogDoc(coll[i])
                  /\ op.results[j] = log_entry_from_dict(coll[i])
    /\ (op.name \in {"nextId", "emit"} /\ op.afterPrune) =>
          /\ op.pruneMeta # None => FirstIssued = op.pruneMeta + 1
          /\ \A k \in 1 .. Len(issued) :
                issued[k] = FirstIssued => k > Len(issued) - (IF op.name = "nextId" THEN 1 ELSE Len(op.calls))

C19_Witness ==
    /\ op.name = "nextId" /\ op.afterPrune /\ op.pruneMeta = 0 /\ op.ret = 1
    /\ StoredIds = <<>> /\ oid = 3

\* ------------------------- thresholds of contexts
\* level names as callers write them; "loud" is none of the allowed ones
SetLevelInputs == {"Off", "ON", "terse", "loud"}
SpellingsOfAllowed == {"off", "Off", "terse", "Terse", "on", "ON"}

\* target.set_logging_level(new_level)
SetLevel(target, new_level) ==
    /\ target \in 1 .. Len(loggers)
    /\ LET lv == set_logging_level(new_level)
       IN  /\ loggers' = IF lv.raised THEN loggers
                         ELSE [loggers EXCEPT ![target]._log_level = lv.level]
           /\ op' = [name |-> "set_level", target |-> target, kwargs |-> EmptyDict,
                     log_level |-> new_level, raised |-> lv.raised,
                     before |-> LabelsNow, levelsBefore |-> LevelsNow]
    /\ UNCHANGED <<heap, coll, oid, now, pc, last_id, next_id, out, issued, rt>>

NextLevel ==
    \/ \E b \in 1 .. MaxLoggers, l \in SetLevelInputs \cup {NoLevel},
          kw \in {EmptyDict, [k \in {"stage"} |-> 2]} : Construct(b, l, kw)
    \/ \E b \in 1 .. MaxLoggers : Setup(b, EmptyDict)
    \/ \E t \in 1 .. MaxLoggers : Label(t, [k \in {"stage"} |-> 2])
    \/ \E t \in 1 .. MaxLoggers, l \in SetLevelInputs : SetLevel(t, l)

SpecLevel == InitCtx /\ [][NextLevel]_vars

\* C16: every context's threshold is one of off, terse, on; creating a
\* context or setting a threshold with any other name (case ignored) fails,
\* and the failed call leaves every threshold and every label as it was.
C16_ThresholdAlwaysValid ==
    /\ \A i \in 1 .. Len(loggers) : loggers[i]._log_level \in AllowedLevels
    /\ (op.name \in {"construct", "set_level"} /\ op.log_level # NoLevel
           /\ op.log_level \notin SpellingsOfAllowed) =>
          /\ op.raised
          /\ LabelsNow = op.before
          /\ LevelsNow = op.levelsBefore
    /\ (op.name = "set_level" /\ op.log_level \in SpellingsOfAllowed) =>
          ~op.raised

C16_Witness ==
    /\ op.name = "set_level" /\ op.log_level = "loud" /\ op.raised
    /\ loggers[op.target]._log_level = "terse"
    /\ "stage" \in DOMAIN Labels(op.target)
    /\ \E i \in 1 .. Len(loggers) : loggers[i]._log_level = "on"

\* ------------------------- labels of related contexts
\* variant: the labels merged for the record are kept on the context
CtxLog_keeps_call_site_labels(target, kwargs) ==
    /\ target \in 1 .. Len(loggers)
    /\ Len(heap) < MaxDicts
    /\ IdsLeft(1)
    /\ LET self == loggers[target]
           r == get_update_attributes_list(heap, self.attributes, kwargs)
           st == log(StartSt(heap, coll, oid), self, 1, 0, kwargs,
                     [now |-> now, mail_ok |-> TRUE, fail_insert |-> 0])
       IN  /\ heap' = r.heap
           /\ loggers' = [loggers EXCEPT ![target].attributes = r.ref]
           /\ coll' = st.coll
           /\ oid' = st.oid
           /\ issued' = issued \o CallIds(st.calls)
           /\ op' = [name |-> "ctxlog", target |-> target, kwargs |-> kwargs,
                     raised |-> st.raised, before |-> LabelsNow,
                     levelsBefore |-> LevelsNow, collBefore |-> coll]
    /\ UNCHANGED <<now, pc, last_id, next_id, out, rt>>

\* target.msg(text, **kwargs) on a context of the durable sink:
\* use_attributes is built for the one record and never assigned to the
\* context
CtxLog(target, kwargs) ==
    /\ target \in 1 .. Len(loggers)
    /\ IdsLeft(1)
    /\ LET self == loggers[target]
           st == log(StartSt(heap, coll, oid), self, 1, 0, kwargs,
                     [now |-> now, mail_ok |-> TRUE, fail_insert |-> 0])
       IN  /\ heap' = st.heap
           /\ coll' = st.coll
           /\ oid' = st.oid
           /\ issued' = issued \o CallIds(st.calls)
           /\ op' = [name |-> "ctxlog", target |-> target, kwargs |-> kwargs,
                     raised |-> st.raised, before |-> LabelsNow,
                     levelsBefore |-> LevelsNow, collBefore |-> coll]
    /\ UNCHANGED <<loggers, now, pc, last_id, next_id, out, rt>>

NextLabel ==
    \/ \E b \in 1 .. MaxLoggers, l \in {NoLevel, "terse"},
          kw \in {EmptyDict, [k \in {"stage"} |-> 2]} : Construct(b, l, kw)
    \/ \E b \in 1 .. MaxLoggers, kw \in {EmptyDict, [k \in {"stage"} |-> 2]} : Setup(b, kw)
    \/ \E t \in 1 .. MaxLoggers : Label(t, [k \in {"stage"} |-> 3])
    \/ \E t \in 1 .. MaxLoggers : CtxLog(t, [k \in {"stage"} |-> 4])

SpecLabel == InitCtx /\ [][NextLabel]_vars

\* C20: label() changes the labels of the context it is called on and of
\* no other, whether parent or child, and changes no threshold; an emit
\* with call-site labels changes no context's labels and no threshold.
C20_LabelIsLocal ==
    /\ op.name = "label" =>
          /\ Labels(op.target) = Overridden(op.before[op.target], op.kwargs)
          /\ \A i \in 1 .. Len(loggers) : i # op.target => Labels(i) = op.before[i]
          /\ LevelsNow = op.levelsBefore
    /\ op.name = "ctxlog" =>
          /\ LabelsNow = op.before
          /\ LevelsNow = op.levelsBefore
          /\ Len(AddedDocs) = 1
          /\ \A k \in DOMAIN op.kwargs : AddedDocs[1][k] = op.kwargs[k]

\* a label() on a parent with two children, after an emit with a call-site label
C20_Witness ==
    /\ op.name = "label" /\ op.target = 1 /\ Len(loggers) = 3
    /\ Labels(1)["stage"] = 3
    /\ "stage" \notin DOMAIN Labels(2) \/ Labels(2)["stage"] # 3
    /\ "stage" \notin DOMAIN Labels(3) \/ Labels(3)["stage"] # 3
    /\ \E i \in 2 .. 3 : loggers[i]._log_level = "terse"
    /\ Len(StoredIds) >= 1 /\ LogDocs(coll)[1]["stage"] = 4

\* ------------------------- the store with a document of another writer
\* The collection is shared: a document that lacks the text key (written by
\* another program or an older version) can be among the log records.
ForeignDoc(log_id) ==
    [k \in {"type", LEVEL_ID, TIMESTAMP_ID, LOG_RECORD_ID} |->
        CASE k = "type" -> 1
          [] k = LEVEL_ID -> 0
          [] k = TIMESTAMP_ID -> datetime_to_long(now)
          [] k = LOG_RECORD_ID -> log_id]

HasCorrupt == \E i \in 1 .. Len(coll) : IsLogDoc(coll[i]) /\ ~CanLoad(coll[i])

ForeignInsert ==
    /\ ~HasCorrupt
    /\ coll' = insert_one(coll, ForeignDoc(next_id_after(LastPersisted)), oid)
    /\ oid' = oid + 1
    /\ op' = [name |-> "foreign"]
    /\ UNCHANGED <<heap, loggers, now, pc, last_id, next_id, out, issued, rt>>

NextCorrupt ==
    \/ \E m \in EmitLevels, t \in EmitTexts, kw \in KwargSets : Emit(m, t, kw, TRUE, 0)
    \/ ForeignInsert
    \/ \E f \in FilterSets, d \in DayInputs : Query(f, d)
    \/ Tick

SpecCorrupt == Init /\ [][NextCorrupt]_vars

ValidMatches ==
    SelectSeq(find_log_items(coll, op.filter, op.days, now), CanLoad)

\* C13: a retrieval over a store where some matching records lack a
\* reserved key does not fail as a whole: it returns every valid matching
\* record.
C13_CorruptRecordIsolated ==
    op.name = "query" =>
        /\ ~op.raised
        /\ Len(op.results) = Len(ValidMatches)
        /\ \A i \in 1 .. Len(ValidMatches) :
              \E j \in 1 .. Len(op.results) :
                  op.results[j]._log_id = ValidMatches[i][LOG_RECORD_ID]

====
